---------------------------- MODULE Spec2Model ----------------------------
(***************************************************************************)
(* Model of main.py: the POST /recommend-procurement handler, its request  *)
(* schema, the supplier lookup and the recommendation generator.           *)
(*                                                                         *)
(* Data representation.  A JSON / Python value is a tagged record:         *)
(*   [t |-> "str", v |-> <<fragments>>]  a string: the concatenation of    *)
(*       its fragments.  A character that some operation looks at (a       *)
(*       digit, sign, point, underscore or exponent letter of a number,    *)
(*       white space, a quote, a backslash, a control character) is a      *)
(*       fragment of its own.  A character that no string of this module   *)
(*       can hold (a control character, a Unicode space) is the fragment   *)
(*       naming its code point, "U+000B"; the characters told apart are    *)
(*       those below U+0100 and the Unicode white space.                   *)
(*   [t |-> "int", neg, d]               an integer of any size: its sign  *)
(*       and its decimal digits d, a sequence of numbers 0..9 with no      *)
(*       leading zero                                                      *)
(*   [t |-> "float", cls, neg, d, x]     an IEEE 754 double.  cls is       *)
(*       "finite", "nan", "inf" or "-inf".  A finite double is written     *)
(*       by the digits d and the exponent x of its shortest decimal form   *)
(*       d[1].d[2]d[3]... * 10^x, the form repr() prints; zero is d =      *)
(*       <<0>>, x = 0, with its sign in neg.                               *)
(*   [t |-> "bool", v |-> TRUE]          a boolean                         *)
(*   [t |-> "null"]                      None / JSON null                  *)
(*   [t |-> "list", v |-> <<values>>]    a list                            *)
(*   [t |-> "obj", v |-> f, keys |-> ks] a mapping: ks its keys in order,  *)
(*       each key the fragments of a string, f a function on the keys      *)
(* A request body is a mapping, with whatever keys the client sent.        *)
(* A text (exception message, detail, prompt line) is a sequence of string *)
(* fragments whose concatenation is the text.                              *)
(***************************************************************************)
EXTENDS Integers, Sequences, FiniteSets, TLC

\* Number of requests in flight at the same time.
NumReq == 2
\* Largest number of organic results in a search reply.
MaxOrganic == 6

Reqs == 1..NumReq

Min(a, b) == IF a < b THEN a ELSE b
Max(a, b) == IF a < b THEN b ELSE a

(***************************************************************************)
(* Naturals of any size, as sequences of decimal digits (most significant  *)
(* first).  The recursions split their range in two, the right half       *)
(* first, from which the carry comes, so that their depth is the logarithm *)
(* of the length.                                                          *)
(***************************************************************************)
\* The digits of a natural number.
RECURSIVE NatDigits(_)
NatDigits(n) == IF n < 10 THEN <<n>> ELSE Append(NatDigits(n \div 10), n % 10)

\* Leading zeros dropped.
Norm(a) ==
  IF \A i \in 1..Len(a) : a[i] = 0 THEN <<0>>
  ELSE SubSeq(a, CHOOSE i \in 1..Len(a) :
                   a[i] # 0 /\ \A j \in 1..(i - 1) : a[j] = 0, Len(a))

\* Trailing zeros dropped.
RECURSIVE StripTrailingZeros(_)
StripTrailingZeros(a) ==
  IF Len(a) > 1 /\ a[Len(a)] = 0
  THEN StripTrailingZeros(SubSeq(a, 1, Len(a) - 1)) ELSE a

\* a with leading zeros up to length n.
Pad(a, n) == [i \in 1..(n - Len(a)) |-> 0] \o a

\* a * 10^p
Shift(a, p) == IF a = <<0>> THEN a ELSE a \o [i \in 1..p |-> 0]

RECURSIVE CmpRange(_, _, _, _)
CmpRange(a, b, lo, hi) ==
  IF lo = hi
  THEN (IF a[lo] < b[lo] THEN -1 ELSE IF a[lo] > b[lo] THEN 1 ELSE 0)
  ELSE LET Right(l) ==
             IF l # 0 THEN l ELSE CmpRange(a, b, (lo + hi) \div 2 + 1, hi)
       IN  Right(CmpRange(a, b, lo, (lo + hi) \div 2))

\* -1, 0, 1 as a < b, a = b, a > b.
Cmp(a, b) ==
  IF Len(a) # Len(b) THEN (IF Len(a) < Len(b) THEN -1 ELSE 1)
  ELSE IF a = b THEN 0 ELSE CmpRange(a, b, 1, Len(a))

\* Digits lo..hi of a + b with the carry c coming in from the right: the
\* digits of the sum and the carry going out.
RECURSIVE AddRange(_, _, _, _, _)
AddRange(a, b, lo, hi, c) ==
  IF lo = hi
  THEN [d |-> <<(a[lo] + b[lo] + c) % 10>>, c |-> (a[lo] + b[lo] + c) \div 10]
  ELSE LET Glue(l, r) == [d |-> l.d \o r.d, c |-> l.c]
           Left(r) ==
             IF r.c < 0 THEN r
             ELSE Glue(AddRange(a, b, lo, (lo + hi) \div 2, r.c), r)
       IN  Left(AddRange(a, b, (lo + hi) \div 2 + 1, hi, c))

Add(a, b) ==
  LET Carry(r) == Norm(<<r.c>> \o r.d)
      Sum(n) == Carry(AddRange(Pad(a, n), Pad(b, n), 1, n, 0))
  IN  Sum(Max(Len(a), Len(b)))

RECURSIVE SubRange(_, _, _, _, _)
SubRange(a, b, lo, hi, c) ==
  IF lo = hi
  THEN [d |-> <<(a[lo] - b[lo] - c + 10) % 10>>,
        c |-> IF a[lo] - b[lo] - c < 0 THEN 1 ELSE 0]
  ELSE LET Glue(l, r) == [d |-> l.d \o r.d, c |-> l.c]
           Left(r) ==
             IF r.c < 0 THEN r
             ELSE Glue(SubRange(a, b, lo, (lo + hi) \div 2, r.c), r)
       IN  Left(SubRange(a, b, (lo + hi) \div 2 + 1, hi, c))

\* a - b, for a >= b.
Sub(a, b) == Norm(SubRange(a, Pad(b, Len(a)), 1, Len(a), 0).d)

RECURSIVE MulRange(_, _, _, _, _)
MulRange(a, lo, hi, k, c) ==
  IF lo = hi
  THEN [d |-> <<(a[lo] * k + c) % 10>>, c |-> (a[lo] * k + c) \div 10]
  ELSE LET Glue(l, r) == [d |-> l.d \o r.d, c |-> l.c]
           Left(r) ==
             IF r.c < 0 THEN r
             ELSE Glue(MulRange(a, lo, (lo + hi) \div 2, k, r.c), r)
       IN  Left(MulRange(a, (lo + hi) \div 2 + 1, hi, k, c))

\* a * k, for a number k up to 10^8.
MulSmall(a, k) ==
  LET Carry(r) == Norm(NatDigits(r.c) \o r.d)
  IN  Carry(MulRange(a, 1, Len(a), k, 0))

\* a * 2^n
RECURSIVE MulPow2(_, _)
MulPow2(a, n) ==
  IF n = 0 \/ a = <<0>> THEN a
  ELSE IF n <= 26 THEN MulSmall(a, 2^n)
  ELSE MulPow2(MulPow2(a, n \div 2), n - n \div 2)

\* a * b, splitting b.
RECURSIVE MulBy(_, _, _, _)
MulBy(a, b, lo, hi) ==
  IF lo = hi THEN MulSmall(a, b[lo])
  ELSE Add(Shift(MulBy(a, b, lo, (lo + hi) \div 2), hi - (lo + hi) \div 2),
           MulBy(a, b, (lo + hi) \div 2 + 1, hi))

Mul(a, b) == MulBy(a, b, 1, Len(b))

\* The multiples 0 * t .. 9 * t of t.
Multiples(t) == [m \in 0..9 |-> MulSmall(t, m)]

\* The largest digit m with m * t <= r, from the multiples of t.
QuotDigit(r, mt) ==
  CHOOSE m \in 0..9 :
    /\ Cmp(mt[m], r) <= 0
    /\ m = 9 \/ Cmp(mt[m + 1], r) > 0

\* Long division: the digits of the quotient from position p down.
RECURSIVE DivFrom(_, _, _, _)
DivFrom(r, den, p, q) ==
  IF p < 0 THEN [q |-> Norm(q), r |-> r]
  ELSE LET Step(mt, m) ==
             DivFrom(Sub(r, mt[m]), den, p - 1, Append(q, m))
           Digit(mt) == Step(mt, QuotDigit(r, mt))
       IN  Digit(Multiples(Shift(den, p)))

\* Quotient and remainder of num by den > 0.
DivMod(num, den) ==
  IF Cmp(num, den) < 0 THEN [q |-> <<0>>, r |-> num]
  ELSE DivFrom(num, den, Len(num) - Len(den), <<>>)

IsOdd(a) == a[Len(a)] % 2 = 1

(***************************************************************************)
(* IEEE 754 doubles.  A finite double other than zero is q * 2^b with      *)
(* q < 2^53 and b >= -1074 (q >= 2^52 unless b = -1074).  Reading a        *)
(* decimal rounds to the nearest double, ties to the even q; repr() prints *)
(* the shortest decimal that reads back as the same double.                *)
(***************************************************************************)
Two52 == <<4, 5, 0, 3, 5, 9, 9, 6, 2, 7, 3, 7, 0, 4, 9, 6>>
Two53 == <<9, 0, 0, 7, 1, 9, 9, 2, 5, 4, 7, 4, 0, 9, 9, 2>>
Two63 == <<9, 2, 2, 3, 3, 7, 2, 0, 3, 6, 8, 5, 4, 7, 7, 5, 8, 0, 8>>

\* Integers not above k * log2(10) and k * log10(2).
Log2Of10(k) ==
  IF k >= 0 THEN (k * 33219) \div 10000 ELSE 0 - ((-k * 33220) \div 10000) - 1
Log10Of2(k) ==
  IF k >= 0 THEN (k * 30102) \div 100000 ELSE 0 - ((-k * 30103) \div 100000) - 1

\* The binary exponent raised until n / d < 2^53.
RECURSIVE FitExp(_, _, _)
FitExp(n, d, b) ==
  IF Cmp(n, MulPow2(d, 53)) >= 0 THEN FitExp(n, MulSmall(d, 2), b + 1)
  ELSE [n |-> n, d |-> d, b |-> b]

\* The double nearest to m * 10^e, for digits m without leading zero and
\* other than zero: q and b, or the overflow to infinity, or the underflow
\* to zero.  The quotient of m * 10^e by 2^b, for the b that brings it
\* below 2^53, rounded to the nearest integer, a tie to the even one.
ToBinary(m, e) ==
  LET Result(q, b) ==
        IF q = <<0>> THEN [kind |-> "zero"]
        ELSE IF q = Two53
        THEN (IF b + 1 > 971 THEN [kind |-> "inf"]
              ELSE [kind |-> "finite", q |-> Two52, b |-> b + 1])
        ELSE IF b > 971 THEN [kind |-> "inf"]
        ELSE [kind |-> "finite", q |-> q, b |-> b]
      Round(q, c, b) ==
        Result(IF c > 0 \/ (c = 0 /\ IsOdd(q)) THEN Add(q, <<1>>) ELSE q, b)
      Halfway(dm, f) == Round(dm.q, Cmp(MulSmall(dm.r, 2), f.d), f.b)
      Divide(f) == Halfway(DivMod(f.n, f.d), f)
      Scale(n, d, b) ==
        Divide(FitExp(IF b < 0 THEN MulPow2(n, 0 - b) ELSE n,
                      IF b > 0 THEN MulPow2(d, b) ELSE d, b))
  IN  Scale(Shift(m, Max(e, 0)), Shift(<<1>>, Max(0 - e, 0)),
            Max(Log2Of10(Len(m) - 1 + e) - 53, -1074))

\* -1, 0, 1 as c * 10^s is below, equal to, above a * 2^e2; p2 is 2^|e2|.
CmpScaled(c, s, a, e2, p2) ==
  Cmp(Shift(IF e2 < 0 THEN Mul(p2, c) ELSE c, Max(s, 0)),
      Shift(IF e2 >= 0 THEN Mul(p2, a) ELSE a, Max(0 - s, 0)))

\* Of the two decimals lo and hi = lo + 1 around a double, the one that
\* reads back as it, the nearer when both do (cm compares their midpoint
\* with the double, a tie goes to the even one), longer when neither does:
\* lo does when it is the double's exact value or lies inside the rounding
\* interval (cl compares it with the lower bound), hi when it lies inside
\* (ch compares it with the upper bound); the bounds belong to the interval
\* of an even double.
PickDecimal(lo, hi, exact, even, cl, ch, cm, longer) ==
  LET okLo == exact \/ cl > 0 \/ (cl = 0 /\ even)
      okHi == ~exact /\ (ch < 0 \/ (ch = 0 /\ even))
  IN  IF okLo /\ okHi
      THEN (IF cm > 0 \/ (cm = 0 /\ ~IsOdd(lo)) THEN lo ELSE hi)
      ELSE IF okLo THEN lo
      ELSE IF okHi THEN hi
      ELSE longer

\* The shortest decimal of n digits or more that reads back as the double
\* v4 / 4 * 2^(e2 + 2), the nearest to it among those: one of the two
\* n-digit decimals around it, lo taken from its first 17 digits l17 (rem
\* the remainder beyond them) and lo + 1, if it lies between the bounds lo4
\* and hi4 of the double's rounding interval.
RECURSIVE ShortestFrom(_, _, _, _, _, _, _, _, _, _)
ShortestFrom(n, l17, rem, x, v4, lo4, hi4, even, e2, p2) ==
  LET lo == SubSeq(l17, 1, n)
  IN  PickDecimal(lo, Add(lo, <<1>>),
                  rem = <<0>> /\ \A i \in (n + 1)..17 : l17[i] = 0, even,
                  CmpScaled(lo, x - n + 1, lo4, e2, p2),
                  CmpScaled(Add(lo, <<1>>), x - n + 1, hi4, e2, p2),
                  CmpScaled(Add(MulSmall(lo, 2), <<1>>), x - n + 1,
                            MulSmall(v4, 2), e2, p2),
                  ShortestFrom(n + 1, l17, rem, x, v4, lo4, hi4, even, e2, p2))

\* The digits d and the exponent x of a decimal c of exponent x, a carry
\* into a further digit counted.
ShortestDigits(c, x) ==
  [d |-> StripTrailingZeros(c),
   x |-> IF Len(c) > 1 /\ c[Len(c)] = 0 THEN x + 1 ELSE x]

\* repr() of the double q * 2^b whose decimal exponent is x: the search
\* started from the first 17 digits of its exact value.
ShortestAt(q, b, x, dm, v4, lo4, e2, p2) ==
  ShortestDigits(ShortestFrom(1, dm.q, dm.r, x, v4, lo4, Add(v4, <<2>>),
                              ~IsOdd(q), e2, p2), x)

\* The decimal exponent of the double v4 / 4 * 2^(e2 + 2), from the
\* estimate x0 that is at most 3 below it.
DecimalExponent(x0, v4, e2, p2) ==
  x0 + Cardinality({k \in 1..3 : CmpScaled(<<1>>, x0 + k, v4, e2, p2) <= 0})

\* The first 17 digits of q * 2^b, of decimal exponent x, and what is left
\* beyond them.
First17(q, b, x) ==
  DivMod(Shift(IF b > 0 THEN MulPow2(q, b) ELSE q, Max(16 - x, 0)),
         Shift(IF b < 0 THEN MulPow2(<<1>>, 0 - b) ELSE <<1>>, Max(x - 16, 0)))

\* The digits d and the exponent x of repr() of the double q * 2^b.  The
\* rounding interval of the double runs from half way to the double below
\* it, which is nearer when q is 2^52, to half way to the one above.
ShortestIn(q, b, x, v4, lo4, e2, p2) ==
  ShortestAt(q, b, x, First17(q, b, x), v4, lo4, e2, p2)
ShortestWith(q, b, v4, e2, p2) ==
  ShortestIn(q, b, DecimalExponent(Len(q) - 1 + Log10Of2(b), v4, e2, p2), v4,
             Sub(v4, IF q = Two52 /\ b > -1074 THEN <<1>> ELSE <<2>>), e2, p2)
Shortest(q, b) ==
  ShortestWith(q, b, MulSmall(q, 4), b - 2,
               MulPow2(<<1>>, IF b - 2 < 0 THEN 2 - b ELSE b - 2))
(***************************************************************************)
(* Values.                                                                 *)
(***************************************************************************)
JStr(s) == [t |-> "str", v |-> s]
JBool(b) == [t |-> "bool", v |-> b]
JList(l) == [t |-> "list", v |-> l]
JObj(ks, f) == [t |-> "obj", v |-> f, keys |-> ks]
None == [t |-> "null"]

\* The integer of sign neg and digits d.
BigInt(neg, d) ==
  [t |-> "int", neg |-> neg /\ Norm(d) # <<0>>, d |-> Norm(d)]

\* The integer n.
JInt(n) == BigInt(n < 0, NatDigits(IF n < 0 THEN 0 - n ELSE n))

\* nan, inf, -inf
NonFinite(cls) ==
  [t |-> "float", cls |-> cls, neg |-> cls = "-inf", d |-> <<0>>, x |-> 0]

\* 0.0 and -0.0
FloatZero(neg) ==
  [t |-> "float", cls |-> "finite", neg |-> neg, d |-> <<0>>, x |-> 0]

\* The double nearest to the decimal of sign neg, digits m and exponent e,
\* (-1)^neg * m * 10^e: what float() and the JSON parser make of a number
\* literal.  A decimal of at most 15 significant digits within the normal
\* range is the shortest form of its own double; any other is rounded to
\* binary and written back.
FiniteFloat(neg, s) ==
  [t |-> "float", cls |-> "finite", neg |-> neg, d |-> s.d, x |-> s.x]
RoundedFloat(neg, bin) ==
  IF bin.kind = "zero" THEN FloatZero(neg)
  ELSE IF bin.kind = "inf" THEN NonFinite(IF neg THEN "-inf" ELSE "inf")
  ELSE FiniteFloat(neg, Shortest(bin.q, bin.b))
FloatOf(neg, m, e) ==
  LET n == Norm(m)
      d == StripTrailingZeros(n)
      x == Len(n) - 1 + e
  IN  IF n = <<0>> THEN FloatZero(neg)
      ELSE IF x > 310 THEN NonFinite(IF neg THEN "-inf" ELSE "inf")
      ELSE IF x < -330 THEN FloatZero(neg)
      ELSE IF Len(d) <= 15 /\ x >= -307 /\ x <= 307
      THEN FiniteFloat(neg, [d |-> d, x |-> x])
      ELSE RoundedFloat(neg, ToBinary(d, x + 1 - Len(d)))

\* The float of the literal m e<e>, m an integer.
Float(m, e) == FloatOf(m < 0, NatDigits(IF m < 0 THEN 0 - m ELSE m), e)

\* The float n.0 of an integer n.
JFloat(n) == Float(n, 0)

\* The digits of the integer a float without fractional part stands for,
\* as many as its exponent says.
IntegralDigits(f) == Shift(f.d, f.x + 1 - Len(f.d))

\* The exact value of a float of integral value: up to 2^53 its decimal
\* form is exact, above it the binary form q * 2^b is.
ExactInteger(f) ==
  LET Binary(bin) == MulPow2(bin.q, bin.b)
      Exact(n) ==
        IF Cmp(n, Two53) <= 0 THEN n
        ELSE Binary(ToBinary(f.d, f.x + 1 - Len(f.d)))
  IN  Exact(IntegralDigits(f))

\* dict.get(key): the value, or None when the key is absent.
DictGet(d, k) == IF k \in DOMAIN d THEN d[k] ELSE None

(***************************************************************************)
(* Text of numbers and values: str() and repr().                           *)
(***************************************************************************)
DigitChar == <<"0", "1", "2", "3", "4", "5", "6", "7", "8", "9">>

\* The characters of a sequence of digits.
DigitsText(d) == [i \in 1..Len(d) |-> DigitChar[d[i] + 1]]

\* str(n) of an integer.
IntText(n) == (IF n.neg THEN <<"-">> ELSE <<>>) \o DigitsText(n.d)

\* k zeros.
Zeros(k) == [i \in 1..k |-> "0"]

\* The exponent of the scientific notation: sign and two digits at least.
ExpText(x) ==
  (IF x < 0 THEN <<"-">> ELSE <<"+">>)
    \o (IF (IF x < 0 THEN 0 - x ELSE x) < 10 THEN <<"0">> ELSE <<>>)
    \o DigitsText(NatDigits(IF x < 0 THEN 0 - x ELSE x))

\* repr() of a finite float of digits d and exponent x, without its sign:
\* positional when 1e-4 <= value < 1e16, else scientific.
PositiveFloatText(d, x) ==
  LET c == DigitsText(d)
  IN  IF d = <<0>> THEN <<"0", ".", "0">>
      ELSE IF x < -4 \/ x >= 16
      THEN <<c[1]>>
             \o (IF Len(c) > 1 THEN <<".">> \o SubSeq(c, 2, Len(c)) ELSE <<>>)
             \o <<"e">> \o ExpText(x)
      ELSE IF x < 0 THEN <<"0", ".">> \o Zeros(0 - x - 1) \o c
      ELSE IF Len(c) <= x + 1 THEN c \o Zeros(x + 1 - Len(c)) \o <<".", "0">>
      ELSE SubSeq(c, 1, x + 1) \o <<".">> \o SubSeq(c, x + 2, Len(c))

\* repr() / str() of a float.
FloatText(f) ==
  IF f.cls # "finite" THEN <<f.cls>>
  ELSE (IF f.neg THEN <<"-">> ELSE <<>>) \o PositiveFloatText(f.d, f.x)

(***************************************************************************)
(* Characters.  A character that no string of TLA+ can hold is written by  *)
(* its code point, "U+000B".  Beside the characters written as they are,   *)
(* the strings of the model hold the code points below U+0100 and the      *)
(* Unicode white space.                                                    *)
(***************************************************************************)
HexUpper == <<"0", "1", "2", "3", "4", "5", "6", "7",
              "8", "9", "A", "B", "C", "D", "E", "F">>
HexLower == <<"0", "1", "2", "3", "4", "5", "6", "7",
              "8", "9", "a", "b", "c", "d", "e", "f">>

\* The character of code point n, below U+10000.
CodePoint(n) ==
  "U+" \o HexUpper[((n \div 4096) % 16) + 1] \o HexUpper[((n \div 256) % 16) + 1]
       \o HexUpper[((n \div 16) % 16) + 1] \o HexUpper[(n % 16) + 1]

\* The white space above U+0100: U+1680, U+2000 to U+200A, U+2028, U+2029,
\* U+202F, U+205F, U+3000.
WideSpaces == {5760} \cup (8192..8202) \cup {8232, 8233, 8239, 8287, 12288}

\* The code points of the model that repr() does not print as they are:
\* the control characters U+0000 to U+001F and U+007F to U+009F, the
\* no-break space, the soft hyphen, the white space above U+0100.
NonPrintable == (0..31) \cup (127..160) \cup {173} \cup WideSpaces

\* The escape repr() writes for a code point it does not print.
CodePointEscape(n) ==
  CASE n = 9 -> "\\t"
    [] n = 10 -> "\\n"
    [] n = 13 -> "\\r"
    [] n \notin {9, 10, 13} /\ n < 256 ->
         "\\x" \o HexLower[(n \div 16) + 1] \o HexLower[(n % 16) + 1]
    [] OTHER ->
         "\\u" \o HexLower[((n \div 4096) % 16) + 1]
               \o HexLower[((n \div 256) % 16) + 1]
               \o HexLower[((n \div 16) % 16) + 1] \o HexLower[(n % 16) + 1]

\* The escapes of the characters written by code point.
Escapes ==
  [c \in {CodePoint(n) : n \in NonPrintable} |->
     CodePointEscape(CHOOSE n \in NonPrintable : CodePoint(n) = c)]

\* repr() of one character inside quotes q: a backslash is doubled, the
\* quote in use escaped, a character that is not printable written as its
\* escape.
EscapeChar(c, q) ==
  CASE c = "\\" -> "\\\\"
    [] c = "\n" -> "\\n"
    [] c = "\r" -> "\\r"
    [] c = "\t" -> "\\t"
    [] c = "\f" -> "\\x0c"
    [] c = "'" /\ q = "'" -> "\\'"
    [] c \in DOMAIN Escapes -> Escapes[c]
    [] OTHER -> c

\* repr() of a string: in double quotes when it holds a single quote and no
\* double quote, else in single quotes.
StrRepr(s) ==
  LET hasS == \E i \in 1..Len(s) : s[i] = "'"
      hasD == \E i \in 1..Len(s) : s[i] = "\""
      q == IF hasS /\ ~hasD THEN "\"" ELSE "'"
  IN  <<q>> \o [i \in 1..Len(s) |-> EscapeChar(s[i], q)] \o <<q>>

\* repr() of a value.
RECURSIVE Repr(_)
RECURSIVE ReprItems(_, _)
ReprItems(l, i) ==
  IF i > Len(l) THEN <<>>
  ELSE (IF i > 1 THEN <<", ">> ELSE <<>>) \o Repr(l[i]) \o ReprItems(l, i + 1)
RECURSIVE ReprPairs(_, _)
ReprPairs(o, i) ==
  IF i > Len(o.keys) THEN <<>>
  ELSE (IF i > 1 THEN <<", ">> ELSE <<>>)
         \o StrRepr(o.keys[i]) \o <<": ">> \o Repr(o.v[o.keys[i]])
         \o ReprPairs(o, i + 1)
Repr(val) ==
  CASE val.t = "str" -> StrRepr(val.v)
    [] val.t = "int" -> IntText(val)
    [] val.t = "float" -> FloatText(val)
    [] val.t = "bool" -> IF val.v THEN <<"True">> ELSE <<"False">>
    [] val.t = "null" -> <<"None">>
    [] val.t = "list" -> <<"[">> \o ReprItems(val.v, 1) \o <<"]">>
    [] val.t = "obj" -> <<"{">> \o ReprPairs(val, 1) \o <<"}">>

\* A value in an f-string, "{val}": the string itself, repr() otherwise.
Fmt(val) == IF val.t = "str" THEN val.v ELSE Repr(val)

\* type(val).__name__
TypeName(val) ==
  CASE val.t = "str" -> "str"
    [] val.t = "int" -> "int"
    [] val.t = "float" -> "float"
    [] val.t = "bool" -> "bool"
    [] val.t = "null" -> "NoneType"
    [] val.t = "list" -> "list"
    [] val.t = "obj" -> "dict"

(***************************************************************************)
(* ProcurementRequest: the schema and its validation (pydantic BaseModel   *)
(* in its default, converting mode).  A string that is read as a number is *)
(* a sequence of characters.                                               *)
(***************************************************************************)
DigitVal == [c \in {"0", "1", "2", "3", "4", "5", "6", "7", "8", "9"} |->
               CASE c = "0" -> 0 [] c = "1" -> 1 [] c = "2" -> 2 [] c = "3" -> 3
                 [] c = "4" -> 4 [] c = "5" -> 5 [] c = "6" -> 6 [] c = "7" -> 7
                 [] c = "8" -> 8 [] c = "9" -> 9]

\* A string of decimal digits.
IsDigits(s) == Len(s) > 0 /\ \A i \in 1..Len(s) : s[i] \in DOMAIN DigitVal

\* The digits of a string of digits.
DigitsOf(s) == [i \in 1..Len(s) |-> DigitVal[s[i]]]

\* The white space trimmed off a string: space, tab, line feed, form feed,
\* carriage return; written by code point, these and the vertical tab
\* U+000B, the next line U+0085, the no-break space U+00A0 and the white
\* space above U+0100.
Whitespace ==
  {" ", "\t", "\n", "\f", "\r"}
    \cup {CodePoint(n) : n \in (9..13) \cup {32, 133, 160} \cup WideSpaces}

\* s without its leading and trailing white space.
Trim(s) ==
  LET keep == {i \in 1..Len(s) : s[i] \notin Whitespace}
  IN  IF keep = {} THEN <<>>
      ELSE SubSeq(s, CHOOSE i \in keep : \A j \in keep : i <= j,
                     CHOOSE i \in keep : \A j \in keep : j <= i)

\* Position of the first c in s, 0 if none.
IndexOf(s, c) ==
  IF \E i \in 1..Len(s) : s[i] = c
  THEN CHOOSE i \in 1..Len(s) : s[i] = c /\ \A j \in 1..(i - 1) : s[j] # c
  ELSE 0

\* s from position i on.
From(s, i) == SubSeq(s, i, Len(s))

StartsWith(s, c) == Len(s) > 0 /\ s[1] = c

\* No result: the string is not of the form asked for.
Invalid == <<"invalid">>

\* The string without its underscores; Invalid when it has none, starts or
\* ends with one, or has two in a row.
StripUnderscores(s) ==
  IF \/ StartsWith(s, "_")
     \/ (Len(s) > 0 /\ s[Len(s)] = "_")
     \/ IndexOf(s, "_") = 0
     \/ \E i \in 1..(Len(s) - 1) : s[i] = "_" /\ s[i + 1] = "_"
  THEN Invalid
  ELSE SelectSeq(s, LAMBDA c : c # "_")

\* A string is an integer as it stands: an optional minus, then a single
\* zero or digits that start with none.
IsNumberInt(s) ==
  LET digits == IF StartsWith(s, "-") THEN From(s, 2) ELSE s
  IN  IsDigits(digits) /\ (Len(digits) = 1 \/ digits[1] # "0")

\* The string starts as an integer does and goes on in digits beyond 4300
\* characters, its minus counted: too long to be read.
IsOutOfRange(s) == Len(s) > 4300 /\ IsNumberInt(SubSeq(s, 1, 4301))

\* The integer a string is as it stands; None when it is none or has more
\* than 4300 characters.
NumberInt(s) ==
  IF IsNumberInt(s) /\ Len(s) <= 4300
  THEN BigInt(StartsWith(s, "-"),
              DigitsOf(IF StartsWith(s, "-") THEN From(s, 2) ELSE s))
  ELSE None

\* The leading zeros, and the underscores among them, dropped: the string
\* as it is when it starts with a digit 1..9 or a minus, else from the
\* first character that is no zero and no underscore, the zero before a
\* point kept; the last character when there is no other; Invalid when
\* another character comes first.
StripLeadingZeros(s) ==
  IF Len(s) = 0 THEN Invalid
  ELSE IF s[1] = "-" \/ (s[1] \in DOMAIN DigitVal /\ s[1] # "0") THEN s
  ELSE IF s[1] # "0" THEN Invalid
  ELSE LET stops == {i \in 2..Len(s) : s[i] \notin {"0", "_"}}
       IN  IF stops = {} THEN From(s, Len(s))
           ELSE LET i == CHOOSE k \in stops : \A j \in stops : k <= j
                IN  IF s[i] \in DOMAIN DigitVal \/ s[i] = "-" THEN From(s, i)
                    ELSE IF s[i] = "." THEN From(s, i - 1)
                    ELSE Invalid

\* A decimal part of one zero or more dropped with its point; Invalid for
\* any other decimal part, the empty one included.
StripDecimalZeros(s) ==
  LET i == IndexOf(s, ".")
  IN  IF i = 0 THEN s
      ELSE IF i < Len(s) /\ \A j \in (i + 1)..Len(s) : s[j] = "0"
      THEN SubSeq(s, 1, i - 1)
      ELSE Invalid

\* The trimmed string cleaned for a second attempt at reading an integer:
\* a leading plus dropped, a leading minus set aside, leading zeros, a
\* decimal part of zeros and underscores removed, the minus put back.
\* Invalid for a sign followed by a sign, and when there is nothing to
\* clean.
CleanIntStr(s) ==
  LET plus == StartsWith(s, "+")
      a == IF plus THEN From(s, 2) ELSE s
      neg == StartsWith(a, "-")
      b == IF neg THEN From(a, 2) ELSE a
      c == StripLeadingZeros(b)
      d == IF c = Invalid THEN Invalid ELSE StripDecimalZeros(c)
      u == StripUnderscores(d)
      sign == IF neg THEN <<"-">> ELSE <<>>
  IN  IF plus /\ StartsWith(a, "-") THEN Invalid
      ELSE IF neg /\ (StartsWith(b, "-") \/ StartsWith(b, "+")) THEN Invalid
      ELSE IF d = Invalid THEN Invalid
      ELSE IF u # Invalid THEN sign \o u
      ELSE IF Len(d) = Len(s) THEN Invalid
      ELSE sign \o d

\* The integer a string is read as, None when it is none: the trimmed
\* string as it stands, else the cleaned string as it stands; none when
\* the trimmed string is an integer too long to be read.
StrAsInt(s) ==
  LET str == Trim(s)
      cleaned == CleanIntStr(str)
  IN  IF IsOutOfRange(str) THEN None
      ELSE IF NumberInt(str) # None THEN NumberInt(str)
      ELSE IF cleaned # Invalid THEN NumberInt(cleaned)
      ELSE None

Lower(c) ==
  CASE c = "A" -> "a" [] c = "E" -> "e" [] c = "F" -> "f" [] c = "I" -> "i"
    [] c = "N" -> "n" [] c = "T" -> "t" [] c = "Y" -> "y" [] OTHER -> c

\* The number a short sequence of digits stands for.
RECURSIVE DigitsValue(_)
DigitsValue(d) ==
  IF Len(d) = 0 THEN 0
  ELSE 10 * DigitsValue(SubSeq(d, 1, Len(d) - 1)) + d[Len(d)]

\* The exponent of a literal, an optional sign and digits: its value, or
\* one beyond every finite double when it has more than six digits.
ExponentValue(s) ==
  LET signed == StartsWith(s, "+") \/ StartsWith(s, "-")
      d == Norm(DigitsOf(IF signed THEN From(s, 2) ELSE s))
      n == IF Len(d) > 6 THEN 999999 ELSE DigitsValue(d)
  IN  IF StartsWith(s, "-") THEN 0 - n ELSE n

\* The float an unsigned decimal literal is read as: digits with an
\* optional point, one digit at least, and an optional exponent; None when
\* it is none.
DecimalAsFloat(s, neg) ==
  LET ePos == IndexOf(s, "e")
      mant == IF ePos = 0 THEN s ELSE SubSeq(s, 1, ePos - 1)
      ex == IF ePos = 0 THEN <<"0">> ELSE From(s, ePos + 1)
      exDigits == IF StartsWith(ex, "+") \/ StartsWith(ex, "-")
                  THEN From(ex, 2) ELSE ex
      dot == IndexOf(mant, ".")
      whole == IF dot = 0 THEN mant ELSE SubSeq(mant, 1, dot - 1)
      frac == IF dot = 0 THEN <<>> ELSE From(mant, dot + 1)
  IN  IF /\ Len(whole) + Len(frac) > 0
         /\ (Len(whole) = 0 \/ IsDigits(whole))
         /\ (Len(frac) = 0 \/ IsDigits(frac))
         /\ IsDigits(exDigits)
      THEN FloatOf(neg, DigitsOf(whole \o frac), ExponentValue(ex) - Len(frac))
      ELSE None

\* The float a literal is read as: an optional sign, then inf, infinity,
\* nan or a decimal literal, in any case.
LiteralAsFloat(s) ==
  LET signed == StartsWith(s, "+") \/ StartsWith(s, "-")
      neg == StartsWith(s, "-")
      rest == IF signed THEN From(s, 2) ELSE s
      low == [i \in 1..Len(rest) |-> Lower(rest[i])]
  IN  IF low \in {<<"i", "n", "f">>, <<"i", "n", "f", "i", "n", "i", "t", "y">>}
      THEN NonFinite(IF neg THEN "-inf" ELSE "inf")
      ELSE IF low = <<"n", "a", "n">> THEN NonFinite("nan")
      ELSE DecimalAsFloat(low, neg)

\* The float a string is read as, None when it is none: the trimmed string
\* as a literal, else the string as given, not trimmed, without its
\* underscores.
OrElse(first, second) == IF first # None THEN first ELSE second
StrAsFloat(s) ==
  OrElse(LiteralAsFloat(Trim(s)),
         IF StripUnderscores(s) # Invalid
         THEN LiteralAsFloat(StripUnderscores(s)) ELSE None)

\* The integer a float is converted to, None when it has none: a finite
\* float without fractional part, strictly between -2^63 and 2^63.
FloatAsInt(f) ==
  IF f.cls # "finite" THEN None
  ELSE IF f.d = <<0>> THEN BigInt(FALSE, <<0>>)
  ELSE IF f.x < Len(f.d) - 1 \/ f.x > 18 THEN None
  ELSE LET InRange(n) == IF Cmp(n, Two63) < 0 THEN BigInt(f.neg, n) ELSE None
       IN  InRange(ExactInteger(f))

\* float(n) of an integer, None when it is beyond the largest double.
IntAsFloat(n) ==
  LET Finite(f) == IF f.cls = "finite" THEN f ELSE None
  IN  Finite(FloatOf(n.neg, n.d, 0))

\* Declared type of each field.
FieldType == [material_name |-> "str", quantity |-> "int",
              location |-> "str", budget |-> "float"]

\* The value of the declared type ty that val is converted to, None when
\* val is not accepted.  A str field takes a string.  An int field takes an
\* integer, a boolean, a float that FloatAsInt converts, a string read as
\* an integer.  A float field takes a float, an integer within the range
\* of a double, a boolean, a string read as a float.
Coerce(ty, val) ==
  CASE ty = "str" -> IF val.t = "str" THEN val ELSE None
    [] ty = "int" ->
         CASE val.t = "int" -> val
           [] val.t = "bool" -> JInt(IF val.v THEN 1 ELSE 0)
           [] val.t = "float" -> FloatAsInt(val)
           [] val.t = "str" -> StrAsInt(val.v)
           [] OTHER -> None
    [] ty = "float" ->
         CASE val.t = "float" -> val
           [] val.t \in {"int", "bool"} ->
                IntAsFloat(IF val.t = "int" THEN val
                           ELSE JInt(IF val.v THEN 1 ELSE 0))
           [] val.t = "str" -> StrAsFloat(val.v)
           [] OTHER -> None

\* Whether the schema accepts val for the declared type ty.
Coercible(ty, val) == Coerce(ty, val) # None

RequiredFields == {"material_name", "quantity", "location", "budget"}

\* The body, a JSON object, has the key f.
HasField(b, f) == <<f>> \in DOMAIN b.v

\* The value of the body under key f.
Field(b, f) == b.v[<<f>>]

\* The body passes schema validation: it has every field, each with a
\* value its type accepts; keys that are no field are ignored.
IsValidBody(b) ==
  \A f \in RequiredFields : HasField(b, f) /\ Coercible(FieldType[f], Field(b, f))

\* The ProcurementRequest object built from a valid body.
ParseRequest(b) ==
  [f \in RequiredFields |->
     IF HasField(b, f) THEN Coerce(FieldType[f], Field(b, f)) ELSE None]

\* Fields in declaration order.
FieldOrder == <<"material_name", "quantity", "location", "budget">>

IsBadField(b, f) == ~HasField(b, f) \/ ~Coercible(FieldType[f], Field(b, f))

\* A value the JSON encoder refuses: a float that is nan or infinite, the
\* value itself or one inside it.
RECURSIVE HasNonFinite(_)
HasNonFinite(val) ==
  CASE val.t = "float" -> val.cls # "finite"
    [] val.t = "list" -> \E i \in 1..Len(val.v) : HasNonFinite(val.v[i])
    [] val.t = "obj" -> \E k \in DOMAIN val.v : HasNonFinite(val.v[k])
    [] OTHER -> FALSE

\* The validation errors of an invalid body, one per offending field, each
\* with the input it is about: the whole body for a missing field, the
\* field's value otherwise.
ValidationErrors(b) ==
  LET Error(f) ==
        [loc |-> <<"body", f>>,
         msg |-> IF ~HasField(b, f) THEN "missing" ELSE "type",
         input |-> IF ~HasField(b, f) THEN b ELSE Field(b, f)]
      Errors(bad) == [i \in 1..Len(bad) |-> Error(bad[i])]
  IN  Errors(SelectSeq(FieldOrder, LAMBDA f : IsBadField(b, f)))

\* An exception no handler catches, and a response that cannot be written
\* as JSON: the framework's default 500, a plain text body.
InternalServerError ==
  [status |-> 500, media |-> "text",
   body |-> [text |-> <<"Internal Server Error">>]]

\* The framework's reply to a body that fails validation: the 422 that
\* lists the errors; the default 500 when an input the errors echo holds
\* nan or an infinity, which the JSON encoder refuses.
ValidationErrorResponse(b) ==
  LET Render(errors) ==
        IF \E i \in 1..Len(errors) : HasNonFinite(errors[i].input)
        THEN InternalServerError
        ELSE [status |-> 422, media |-> "json",
              body |-> [detail |-> JList(errors)]]
  IN  Render(ValidationErrors(b))

\* Faulty variant: the error returned as a 200 body instead of raised.
HTTPExceptionAsOk(status, detail) ==
  [status |-> 200, media |-> "json", body |-> [detail |-> JStr(detail)]]

\* raise HTTPException(status_code=status, detail=detail), as rendered by
\* the framework: the status and the JSON body {"detail": detail}.
HTTPException(status, detail) ==
  [status |-> status, media |-> "json", body |-> [detail |-> JStr(detail)]]

(***************************************************************************)
(* get_supplier_data                                                       *)
(***************************************************************************)
TopN == 5

\* f"{material} suppliers in {location}"
Query(material, location) ==
  Fmt(material) \o <<" suppliers in ">> \o Fmt(location)

\* results.get("organic_results", [])
OrganicOf(results) ==
  IF "organic_results" \in DOMAIN results THEN results.organic_results
  ELSE JList(<<>>)

\* Faulty variant: the list taken whole.
NoSlice(organic) == organic

\* organic[:5], on the items of a list or the characters of a string.
Slice5(organic) == SubSeq(organic, 1, Min(TopN, Len(organic)))

\* {"title": res.get("title"), "link": res.get("link"), "snippet": ...}
Extract(res) ==
  [title |-> DictGet(res, <<"title">>),
   link |-> DictGet(res, <<"link">>),
   snippet |-> DictGet(res, <<"snippet">>)]

\* str(e) of the AttributeError raised by res.get on a value that is no
\* mapping.
AttributeErrorText(val) ==
  <<"'", TypeName(val), "'", " object has no attribute ", "'get'">>

\* The interpreters the program runs on, told apart by what organic[:5]
\* does on a mapping: up to CPython 3.11 a slice cannot be hashed and the
\* lookup raises TypeError; from CPython 3.12 on it can, and the lookup
\* raises KeyError with the slice as its key.
Interpreters == {"CPython <= 3.11", "CPython >= 3.12"}

\* str(e) of the exception raised by organic[:5] on a value that cannot be
\* sliced, under interpreter py.
SliceErrorText(val, py) ==
  IF val.t = "obj"
  THEN IF py = "CPython <= 3.11"
       THEN <<"unhashable type: ", "'slice'">>
       ELSE <<"slice(None, 5, None)">>
  ELSE <<"'", TypeName(val), "'", " object is not subscriptable">>

\* Faulty variant: the detail without the exception text.
SerpDetailNoText(text) == <<"SERPAPI error">>

\* f"SERPAPI error: {str(e)}"
SerpDetail(text) == <<"SERPAPI error: ">> \o text

\* Position of the first entry of a list that is no mapping, 0 if none.
FirstNonMapping(list) ==
  IF \E i \in 1..Len(list) : list[i].t # "obj"
  THEN CHOOSE i \in 1..Len(list) :
         /\ list[i].t # "obj"
         /\ \A j \in 1..(i - 1) : list[j].t = "obj"
  ELSE 0

\* The items the for loop goes through: the first items of a list, the
\* first characters of a string.
LoopItems(organic) ==
  IF organic.t = "list" THEN Slice5(organic.v)
  ELSE LET chars == Slice5(organic.v)
       IN  [i \in 1..Len(chars) |-> JStr(<<chars[i]>>)]

\* The outcome of get_supplier_data on the provider's reply: the supplier
\* list, or the HTTPException raised by the except clause, under
\* interpreter py.
get_supplier_data(reply, py) ==
  IF reply.kind = "raise"
  THEN [kind |-> "raise", exc |-> HTTPException(500, SerpDetail(reply.text))]
  ELSE LET organic == OrganicOf(reply.v)
       IN  IF organic.t \notin {"list", "str"}
           THEN [kind |-> "raise",
                 exc |-> HTTPException(500,
                           SerpDetail(SliceErrorText(organic, py)))]
           ELSE LET first == LoopItems(organic)
                    k == FirstNonMapping(first)
                IN  IF k # 0
                    THEN [kind |-> "raise",
                          exc |-> HTTPException(500,
                                    SerpDetail(AttributeErrorText(first[k])))]
                    ELSE [kind |-> "return",
                          v |-> [i \in 1..Len(first) |-> Extract(first[i].v)]]

\* Faulty variant: a failed search call tried again.
SearchRetriesOnce(reply) == IF reply.kind = "raise" THEN 1 ELSE 0

\* Further search requests issued once the reply is there: the except
\* clause raises, nothing is tried again.
SearchRetries(reply) == 0

(***************************************************************************)
(* generate_recommendation                                                 *)
(***************************************************************************)
\* f"- {s['title']}: {s['link']} ({s['snippet']})" for each supplier
SupplierSummary(sups) ==
  [i \in 1..Len(sups) |->
     <<"- ">> \o Fmt(sups[i].title) \o <<": ">> \o Fmt(sups[i].link)
       \o <<" (">> \o Fmt(sups[i].snippet) \o <<")">>]

\* The chat-completion request; of the prompt, the fields filled in.
CompletionRequest(req, sups, cl) ==
  [api_key |-> cl.api_key,
   model |-> "llama-3.1-8b-instant",
   roles |-> <<"system", "user">>,
   temperature |-> "0.7",
   max_tokens |-> 800,
   system |-> "You are an expert AI procurement assistant.",
   prompt |-> [material |-> Fmt(req.material_name),
               quantity |-> Fmt(req.quantity),
               location |-> Fmt(req.location),
               budget |-> Fmt(req.budget),
               supplier_summary |-> SupplierSummary(sups)]]

\* Faulty variant: choices[-1].
LastChoice(choices) == choices[Len(choices)]

\* chat_completion.choices[0].message.content
FirstChoice(choices) == choices[1]

\* The outcome of generate_recommendation on the provider's reply: the
\* text returned, or the exception that leaves the function.
generate_recommendation(reply) ==
  IF reply.kind = "raise" THEN [kind |-> "raise", text |-> reply.text]
  ELSE IF Len(reply.choices) = 0
       THEN [kind |-> "raise", text |-> <<"list index out of range">>]
       ELSE [kind |-> "return", v |-> FirstChoice(reply.choices)]

(***************************************************************************)
(* recommend_procurement                                                   *)
(***************************************************************************)
\* Faulty variant: the empty check left out.
NoEmptyCheck(sups) == FALSE

\* not suppliers
NoSuppliers(sups) == Len(sups) = 0

\* The dict the handler returns.
ResponseContent(req, recommendation, sups) ==
  [material |-> req.material_name,
   location |-> req.location,
   budget |-> req.budget,
   recommendation |-> recommendation,
   top_suppliers |-> sups]

\* The dict can be written as JSON.
Renderable(content) ==
  /\ \A k \in {"material", "location", "budget", "recommendation"} :
       ~HasNonFinite(content[k])
  /\ \A i \in 1..Len(content.top_suppliers) :
       \A k \in DOMAIN content.top_suppliers[i] :
         ~HasNonFinite(content.top_suppliers[i][k])

\* The response to the handler's return: the 200 with the dict as JSON; the
\* framework's 500 when the dict cannot be written as JSON.
AssembleResponse(req, recommendation, sups) ==
  IF Renderable(ResponseContent(req, recommendation, sups))
  THEN [status |-> 200, media |-> "json",
        body |-> ResponseContent(req, recommendation, sups)]
  ELSE InternalServerError

\* Faulty variant: a fallback text when the completion call raises.
FallbackText == JStr(<<"No recommendation available">>)

AfterGenerateFallback(req, sups, outcome) ==
  IF outcome.kind = "raise"
  THEN AssembleResponse(req, FallbackText, sups)
  ELSE AssembleResponse(req, outcome.v, sups)

\* The response after the generate_recommendation call: an exception is
\* not caught and reaches the framework, a text is assembled into the
\* response.
AfterGenerate(req, sups, outcome) ==
  IF outcome.kind = "raise"
  THEN InternalServerError
  ELSE AssembleResponse(req, outcome.v, sups)

\* Faulty variant: going on to generate with an empty supplier list.
AfterLookupPcNoCheck(res) ==
  IF res.kind = "raise" THEN "done" ELSE "generating"

\* Where the handler stands after get_supplier_data: finished when it
\* raised or returned no supplier, else about to generate.
AfterLookupPc(res) ==
  IF res.kind = "raise" THEN "done"
  ELSE IF NoSuppliers(res.v) THEN "done" ELSE "generating"

\* The response of a handler that finishes after get_supplier_data.
AfterLookupResponse(res) ==
  IF res.kind = "raise" THEN res.exc
  ELSE HTTPException(404, <<"No suppliers found.">>)

\* Faulty variant: a module-level variable, the same for every request.
BindGlobal(f, r, x) == [q \in DOMAIN f |-> x]

\* Binding a local variable of the handler call of request r.
BindLocal(f, r, x) == [f EXCEPT ![r] = x]

(***************************************************************************)
(* Inputs: request bodies and the replies of the two providers.            *)
(***************************************************************************)
Material == JStr(<<"copper cable">>)
Place == JStr(<<"Pune">>)

\* The JSON object b with the value val under key f, a new key last.
With(b, f, val) ==
  JObj(IF HasField(b, f) THEN b.keys ELSE Append(b.keys, <<f>>),
       [k \in DOMAIN b.v \cup {<<f>>} |-> IF k = <<f>> THEN val ELSE b.v[k]])

\* The JSON object b without the key f.
Without(b, f) ==
  JObj(SelectSeq(b.keys, LAMBDA k : k # <<f>>),
       [k \in DOMAIN b.v \ {<<f>>} |-> b.v[k]])

ValidBody ==
  With(With(With(With(JObj(<<>>, <<>>), "material_name", Material),
                 "quantity", JInt(500)), "location", Place),
       "budget", JInt(200000))

\* Request bodies.  Accepted: well-typed; the quantity 500.0 and the budget
\* "1.5", with a key that is no field; the quantity "500" after a vertical
\* tab and the budget "nan".  Rejected: a quantity given as a word; a null
\* material name, beside a key that is no field and holds NaN; a missing
\* budget; a quantity of NaN; a missing location, beside a key that is no
\* field and holds an infinity.
Bodies ==
  { ValidBody,
    With(With(With(ValidBody, "quantity", JFloat(500)),
              "budget", JStr(<<"1", ".", "5">>)),
         "notes", JStr(<<"urgent">>)),
    With(With(ValidBody, "quantity", JStr(<<CodePoint(11), "5", "0", "0">>)),
         "budget", JStr(<<"n", "a", "n">>)),
    With(ValidBody, "quantity", JStr(<<"m", "a", "n", "y">>)),
    With(With(ValidBody, "material_name", None), "notes", NonFinite("nan")),
    Without(ValidBody, "budget"),
    With(ValidBody, "quantity", NonFinite("nan")),
    Without(With(ValidBody, "notes", NonFinite("inf")), "location") }

ResultKeys == <<<<"title">>, <<"link">>, <<"snippet">>>>

\* The keys the i-th organic result carries: all three, the title alone,
\* link and snippet, or none, in turn.
KeysAt(i) ==
  CASE i % 4 = 1 -> ResultKeys
    [] i % 4 = 2 -> <<<<"title">>>>
    [] i % 4 = 3 -> <<<<"link">>, <<"snippet">>>>
    [] OTHER -> <<>>

\* The i-th organic result: a mapping whose values name the key and i.
Entry(i) ==
  JObj(KeysAt(i),
       [k \in {KeysAt(i)[j] : j \in 1..Len(KeysAt(i))} |->
          JStr(k \o <<ToString(i)>>)])

\* A reply's list of n organic results.
OrganicList(n) == JList([i \in 1..n |-> Entry(i)])

\* A list of MaxOrganic results whose k-th entry is a string.
BadList(k) ==
  JList([i \in 1..MaxOrganic |-> IF i = k THEN JStr(<<"junk">>) ELSE Entry(i)])

\* A list of two results, the snippet of the second NaN.
NanList ==
  JList(<<Entry(1),
          JObj(ResultKeys,
               [k \in {<<"title">>, <<"link">>, <<"snippet">>} |->
                  IF k = <<"snippet">> THEN NonFinite("nan") ELSE JStr(k)])>>)

\* Lists of no result, of fewer than five, of more than five with a string
\* among the first five or after them, and a list with a NaN in a result.
OrganicLists ==
  {OrganicList(n) : n \in {0, 2}}
    \cup {BadList(k) : k \in {1, TopN + 1}}
    \cup {NanList}

\* Replies to the search call: an exception, a reply with no
\* organic_results entry, a reply whose organic_results is null, a reply
\* whose organic_results is one result in place of a list, a reply with a
\* list of organic results.
SearchReplies ==
  { [kind |-> "raise", text |-> <<"Connection refused">>],
    [kind |-> "dict", v |-> [error |-> JStr(<<"Invalid API key">>)]],
    [kind |-> "dict", v |-> [organic_results |-> None]],
    [kind |-> "dict", v |-> [organic_results |-> Entry(1)]] }
    \cup {[kind |-> "dict", v |-> [organic_results |-> l]] : l \in OrganicLists}

PlanA == JStr(<<"Plan A">>)
PlanB == JStr(<<"Plan B">>)

\* Replies to the completion call: an exception, or a completion with its
\* choices: none, or two different ones.
CompletionReplies ==
  { [kind |-> "raise", text |-> <<"Rate limit reached">>],
    [kind |-> "completion", choices |-> <<>>],
    [kind |-> "completion", choices |-> <<PlanB, PlanA>>] }

NoReply == [kind |-> "none"]
NoResponse == [status |-> 0, media |-> "none", body |-> <<>>]

(***************************************************************************)
(* State                                                                   *)
(***************************************************************************)
VARIABLES
  interpreter,  \* the interpreter the program runs on
  client,       \* the module-level completion client
  pc,           \* where each request stands
  body,         \* the JSON body of each request
  request,      \* the handler's parameter: the validated ProcurementRequest
  query,        \* the query of the search call
  searchReply,  \* the provider's reply to the search call
  suppliers,    \* the handler's local variable suppliers
  sent,         \* the chat-completion request
  complReply,   \* the provider's reply to the completion call
  response,     \* the HTTP response
  searchCalls,  \* calls of search.get_dict() made for the request
  complCalls    \* calls of client.chat.completions.create made for it

vars == <<interpreter, client, pc, body, request, query, searchReply,
          suppliers, sent, complReply, response, searchCalls, complCalls>>

Init ==
  /\ interpreter \in Interpreters
  /\ client = [api_key |-> "GROQ_API_KEY"]
  /\ pc = [r \in Reqs |-> "received"]
  /\ body \in [Reqs -> Bodies]
  /\ request = [r \in Reqs |-> None]
  /\ query = [r \in Reqs |-> <<>>]
  /\ searchReply = [r \in Reqs |-> NoReply]
  /\ suppliers = [r \in Reqs |-> <<>>]
  /\ sent = [r \in Reqs |-> NoReply]
  /\ complReply = [r \in Reqs |-> NoReply]
  /\ response = [r \in Reqs |-> NoResponse]
  /\ searchCalls = [r \in Reqs |-> 0]
  /\ complCalls = [r \in Reqs |-> 0]

\* Schema validation of the body, before the handler is entered.
Validate(r) ==
  /\ pc[r] = "received"
  /\ IF IsValidBody(body[r])
     THEN /\ request' = BindLocal(request, r, ParseRequest(body[r]))
          /\ pc' = [pc EXCEPT ![r] = "validated"]
          /\ UNCHANGED response
     ELSE /\ response' = BindLocal(response, r, ValidationErrorResponse(body[r]))
          /\ pc' = [pc EXCEPT ![r] = "done"]
          /\ UNCHANGED request
  /\ UNCHANGED <<interpreter, client, body, query, searchReply, suppliers,
                 sent, complReply, searchCalls, complCalls>>

\* The handler enters get_supplier_data and issues the search request; its
\* thread then waits for the reply.
SearchIssue(r) ==
  /\ pc[r] = "validated"
  /\ query' = BindLocal(query, r,
                Query(request[r].material_name, request[r].location))
  /\ searchCalls' = [searchCalls EXCEPT ![r] = @ + 1]
  /\ pc' = [pc EXCEPT ![r] = "searching"]
  /\ UNCHANGED <<interpreter, client, body, request, searchReply, suppliers,
                 sent, complReply, response, complCalls>>

\* The search reply arrives: the rest of get_supplier_data, and the empty
\* check after it.
SearchReturn(r) ==
  /\ pc[r] = "searching"
  /\ \E reply \in SearchReplies :
       LET res == get_supplier_data(reply, interpreter)
       IN  /\ searchReply' = BindLocal(searchReply, r, reply)
           /\ searchCalls' = [searchCalls EXCEPT ![r] = @ + SearchRetries(reply)]
           /\ pc' = [pc EXCEPT ![r] = AfterLookupPc(res)]
           /\ IF AfterLookupPc(res) = "done"
              THEN /\ response' = BindLocal(response, r, AfterLookupResponse(res))
                   /\ UNCHANGED suppliers
              ELSE /\ suppliers' = BindLocal(suppliers, r, res.v)
                   /\ UNCHANGED response
  /\ UNCHANGED <<interpreter, client, body, request, query, sent, complReply,
                 complCalls>>

\* The handler enters generate_recommendation, builds the prompt and issues
\* the completion request; its thread then waits for the reply.
CompletionIssue(r) ==
  /\ pc[r] = "generating"
  /\ sent' = BindLocal(sent, r,
               CompletionRequest(request[r], suppliers[r], client))
  /\ complCalls' = [complCalls EXCEPT ![r] = @ + 1]
  /\ pc' = [pc EXCEPT ![r] = "completing"]
  /\ UNCHANGED <<interpreter, client, body, request, query, searchReply, suppliers,
                 complReply, response, searchCalls>>

\* The completion reply arrives: the rest of generate_recommendation, and
\* the handler's return.
CompletionReturn(r) ==
  /\ pc[r] = "completing"
  /\ \E reply \in CompletionReplies :
       /\ complReply' = BindLocal(complReply, r, reply)
       /\ response' = BindLocal(response, r,
                        AfterGenerate(request[r], suppliers[r],
                                      generate_recommendation(reply)))
       /\ pc' = [pc EXCEPT ![r] = "done"]
  /\ UNCHANGED <<interpreter, client, body, request, query, searchReply,
                 suppliers, sent, searchCalls, complCalls>>

Next ==
  \E r \in Reqs :
    \/ Validate(r)
    \/ SearchIssue(r)
    \/ SearchReturn(r)
    \/ CompletionIssue(r)
    \/ CompletionReturn(r)

Spec == Init /\ [][Next]_vars

(***************************************************************************)
(* Vocabulary of the properties, stated on the inputs of a request (its    *)
(* body and the replies it got) and on its response.                       *)
(***************************************************************************)
Done(r) == pc[r] = "done"
Status(r) == response[r].status
Body(r) == response[r].body

HasOrganic(reply) == reply.kind = "dict" /\ "organic_results" \in DOMAIN reply.v

\* The organic results the search provider returned.
Returned(reply) ==
  IF HasOrganic(reply) /\ reply.v.organic_results.t = "list"
  THEN reply.v.organic_results.v ELSE <<>>

\* The provider answered with no organic result: an empty list, or no
\* organic_results entry.
NoResults(reply) ==
  /\ reply.kind = "dict"
  /\ HasOrganic(reply) => /\ reply.v.organic_results.t = "list"
                          /\ Len(reply.v.organic_results.v) = 0

MissingField(b) == \E f \in DOMAIN FieldType : ~HasField(b, f)

\* A field of the wrong type: a value the schema does not accept for the
\* declared type of the field.
WrongType(b) ==
  \E f \in DOMAIN FieldType :
    HasField(b, f) /\ ~Coercible(FieldType[f], Field(b, f))

\* The body is rejected and an input its errors report holds NaN or an
\* infinity: a field's value that is not accepted, or, with a field
\* missing, any value of the body.
EchoesNonFinite(b) ==
  \/ MissingField(b) /\ HasNonFinite(b)
  \/ \E f \in DOMAIN FieldType :
       /\ HasField(b, f) /\ HasNonFinite(Field(b, f))
       /\ ~Coercible(FieldType[f], Field(b, f))

\* The organic_results value cannot be sliced, or among the first five
\* organic results one is no mapping: handling the reply raises.
HandlingRaises(reply) ==
  /\ HasOrganic(reply)
  /\ \/ reply.v.organic_results.t \notin {"list", "str"}
     \/ reply.v.organic_results.t = "str" /\ Len(reply.v.organic_results.v) > 0
     \/ \E i \in 1..Len(Returned(reply)) : i <= 5 /\ Returned(reply)[i].t # "obj"

SearchFailed(reply) == reply.kind = "raise" \/ HandlingRaises(reply)

\* The text of the exception a failed search raised, on the interpreter
\* the program runs on.
SearchExceptionText(reply) ==
  IF reply.kind = "raise" THEN reply.text
  ELSE IF reply.v.organic_results.t = "list"
       THEN AttributeErrorText(Returned(reply)[FirstNonMapping(Returned(reply))])
       ELSE IF reply.v.organic_results.t = "str"
            THEN AttributeErrorText(reply.v.organic_results)
            ELSE SliceErrorText(reply.v.organic_results, interpreter)

Contains(text, part) ==
  \E i \in 0..(Len(text) - Len(part)) : SubSeq(text, i + 1, i + Len(part)) = part

\* The supplier entry's field is the result's value under key k, None when
\* the result has no such key.
SameField(field, res, k) ==
  IF k \in DOMAIN res.v THEN field = res.v[k] ELSE field = None

SuppliersMatch(top, organic) ==
  /\ Len(top) = (IF Len(organic) < 5 THEN Len(organic) ELSE 5)
  /\ \A i \in 1..Len(top) :
       /\ organic[i].t = "obj"
       /\ SameField(top[i].title, organic[i], <<"title">>)
       /\ SameField(top[i].link, organic[i], <<"link">>)
       /\ SameField(top[i].snippet, organic[i], <<"snippet">>)

NoPartialResult(r) ==
  /\ "recommendation" \notin DOMAIN Body(r)
  /\ "top_suppliers" \notin DOMAIN Body(r)

JsonDetail(r) == response[r].media = "json" /\ "detail" \in DOMAIN Body(r)

\* The budget of the validated request is nan or infinite.
NonFiniteBudget(r) == request[r] # None /\ request[r].budget.cls # "finite"

\* Among the first five organic results returned, a title, link or snippet
\* holds NaN or an infinity.
NonFiniteSupplier(reply) ==
  \E i \in 1..Len(Returned(reply)) :
    /\ i <= 5 /\ Returned(reply)[i].t = "obj"
    /\ \E k \in {<<"title">>, <<"link">>, <<"snippet">>} :
         k \in DOMAIN Returned(reply)[i].v /\ HasNonFinite(Returned(reply)[i].v[k])

\* The dict the handler returns cannot be written as JSON: it holds NaN or
\* an infinity, in the budget or in a supplier.
Unwritable(r) == NonFiniteBudget(r) \/ NonFiniteSupplier(searchReply[r])

\* The completion call gave no text: it raised, or it returned a
\* completion without choices.
CompletionFailed(reply) ==
  \/ reply.kind = "raise"
  \/ reply.kind = "completion" /\ Len(reply.choices) = 0

\* C1 as stated: every finished valid request whose search returned n >= 1
\* organic results has a response with top_suppliers of length min(5, n)
\* whose entries match the first results.
C1_AsStated ==
  \A r \in Reqs :
    (Done(r) /\ Len(Returned(searchReply[r])) >= 1)
      => /\ "top_suppliers" \in DOMAIN Body(r)
         /\ SuppliersMatch(Body(r).top_suppliers, Returned(searchReply[r]))

\* C1, amended: a valid request whose search returned n >= 1 organic
\* results ends with a 200 whose top_suppliers has length min(5, n) and
\* whose i-th entry has the title, link and snippet of the i-th organic
\* result (None for a key the result lacks), provided the request reaches
\* its 200.  It ends with a 500 without top_suppliers otherwise: the JSON
\* 500 of a search failure when one of the first five results is no
\* mapping; the framework's plain-text 500 when the completion call raises
\* or returns no choice, or when the response holds NaN or an infinity and
\* cannot be written as JSON.
C1_TopSuppliers ==
  \A r \in Reqs :
    (Done(r) /\ Len(Returned(searchReply[r])) >= 1)
      => IF SearchFailed(searchReply[r])
         THEN /\ Status(r) = 500 /\ JsonDetail(r)
              /\ "top_suppliers" \notin DOMAIN Body(r)
         ELSE IF CompletionFailed(complReply[r]) \/ Unwritable(r)
         THEN response[r] = InternalServerError
         ELSE /\ Status(r) = 200
              /\ "top_suppliers" \in DOMAIN Body(r)
              /\ SuppliersMatch(Body(r).top_suppliers, Returned(searchReply[r]))

\* A 200 built from a reply of more than five results, some lacking keys,
\* next to a 200 built from a reply of fewer than five.
C1_Witness ==
  \E r, q \in Reqs :
    /\ Done(r) /\ Status(r) = 200
    /\ Len(Returned(searchReply[r])) > 5
    /\ Len(Body(r).top_suppliers) = 5
    /\ Body(r).top_suppliers[2].link = None
    /\ Done(q) /\ Status(q) = 200
    /\ Len(Returned(searchReply[q])) = 2
    /\ Len(Body(q).top_suppliers) = 2

\* C2: a request whose search reply has an empty organic-results list, or
\* no organic-results entry, ends with 404 and never calls the completion
\* provider.
C2_EmptyIs404 ==
  \A r \in Reqs :
    NoResults(searchReply[r])
      => /\ Done(r) /\ Status(r) = 404
         /\ JsonDetail(r) /\ Body(r).detail = JStr(<<"No suppliers found.">>)
         /\ complCalls[r] = 0 /\ sent[r] = NoReply /\ complReply[r] = NoReply

\* One request got an empty list, another a reply without the entry.
C2_Witness ==
  \E r, q \in Reqs :
    /\ Done(r) /\ Done(q) /\ Status(r) = 404 /\ Status(q) = 404
    /\ searchReply[r].kind = "dict" /\ searchReply[q].kind = "dict"
    /\ "organic_results" \in DOMAIN searchReply[r].v
    /\ "organic_results" \notin DOMAIN searchReply[q].v

\* C3: a request missing a required field, or carrying a field of the
\* wrong type (a value the schema does not accept for the field), is
\* rejected with a 4xx and calls neither provider.
C3_Rejected ==
  \A r \in Reqs :
    (pc[r] # "received" /\ (MissingField(body[r]) \/ WrongType(body[r])))
      => /\ Done(r) /\ Status(r) \in 400..499
         /\ searchCalls[r] = 0 /\ complCalls[r] = 0
         /\ searchReply[r] = NoReply /\ complReply[r] = NoReply

\* A request rejected with its 422 next to a rejected request whose
\* quantity is NaN: no provider call, and a 500 in place of the 4xx.
C3_Witness ==
  \E r, q \in Reqs :
    /\ Done(r) /\ Status(r) = 422 /\ MissingField(body[r])
    /\ Done(q) /\ WrongType(body[q]) /\ EchoesNonFinite(body[q])
    /\ Status(q) = 500 /\ searchCalls[q] = 0 /\ complCalls[q] = 0

\* C4: when the search call, or the handling of its reply, raises, the
\* request ends with a 500 whose detail contains the exception text, and
\* the completion provider is never called.
C4_SearchFailure ==
  \A r \in Reqs :
    SearchFailed(searchReply[r])
      => /\ Done(r) /\ Status(r) = 500
         /\ JsonDetail(r)
         /\ Contains(Body(r).detail.v, SearchExceptionText(searchReply[r]))
         /\ complCalls[r] = 0 /\ sent[r] = NoReply /\ complReply[r] = NoReply

\* One request whose search call raised, another whose reply could not be
\* handled.
C4_Witness ==
  \E r, q \in Reqs :
    /\ Done(r) /\ searchReply[r].kind = "raise" /\ Status(r) = 500
    /\ Done(q) /\ HandlingRaises(searchReply[q]) /\ Status(q) = 500

\* C5: when the completion call raises, the request ends in the
\* framework's default 500, after one completion call, with no
\* recommendation and no 200.
C5_CompletionFailure ==
  \A r \in Reqs :
    complReply[r].kind = "raise"
      => /\ Done(r) /\ Status(r) = 500
         /\ response[r] = InternalServerError
         /\ complCalls[r] = 1
         /\ NoPartialResult(r)

C5_Witness ==
  \E r \in Reqs :
    /\ Done(r) /\ complReply[r].kind = "raise" /\ searchCalls[r] = 1
    /\ Status(r) = 500

\* The handler returned its dict and the dict could not be written as JSON.
RenderFailed(r) ==
  /\ complReply[r].kind = "completion" /\ Len(complReply[r].choices) > 0
  /\ Unwritable(r)

\* The failures of a finished request: malformed request, search failure,
\* no supplier found, completion failure, response not written.
Failed(r) ==
  /\ Done(r)
  /\ \/ SearchFailed(searchReply[r])
     \/ NoResults(searchReply[r])
     \/ CompletionFailed(complReply[r])
     \/ RenderFailed(r)
     \/ MissingField(body[r]) \/ WrongType(body[r])

\* C6 as stated: every failure is an HTTP error status with a JSON detail
\* message, and carries neither recommendation nor top_suppliers.
C6_AsStated ==
  \A r \in Reqs :
    Failed(r) => /\ Status(r) \in 400..599
                 /\ JsonDetail(r)
                 /\ NoPartialResult(r)

\* C6, amended: every failure is an HTTP error status and carries neither
\* recommendation nor top_suppliers; a malformed request, a search failure
\* and an empty supplier list carry a JSON detail message; a completion
\* failure (the call raises or returns no choice), a response that cannot
\* be written as JSON and a malformed request whose reported input holds
\* NaN or an infinity carry the framework's plain-text 500 body instead.
\* These are all the failures: a finished request without one of them has
\* its 200.
C6_Failures ==
  \A r \in Reqs :
    /\ Failed(r) => /\ Status(r) \in 400..599
                    /\ NoPartialResult(r)
                    /\ IF \/ CompletionFailed(complReply[r])
                          \/ RenderFailed(r)
                          \/ EchoesNonFinite(body[r])
                       THEN response[r] = InternalServerError /\ ~JsonDetail(r)
                       ELSE JsonDetail(r)
    /\ (Done(r) /\ ~Failed(r)) => Status(r) = 200

\* A completion failure, a malformed request that holds NaN or a response
\* that cannot be written, next to a failure with a JSON detail.
C6_Witness ==
  \E r, q \in Reqs :
    /\ Failed(r) /\ Status(r) = 500 /\ ~JsonDetail(r)
    /\ \/ CompletionFailed(complReply[r])
       \/ EchoesNonFinite(body[r])
       \/ RenderFailed(r)
    /\ Failed(q) /\ complReply[q] = NoReply /\ Status(q) \in {404, 422}
    /\ JsonDetail(q)

\* C7: every 200 echoes the request's material_name, location and budget,
\* and its recommendation is the first choice of the one completion call.
C7_Echo ==
  \A r \in Reqs :
    (Done(r) /\ Status(r) = 200)
      => /\ Body(r).material = request[r].material_name
         /\ Body(r).material = Field(body[r], "material_name")
         /\ Body(r).location = request[r].location
         /\ Body(r).location = Field(body[r], "location")
         /\ Body(r).budget = request[r].budget
         /\ Field(body[r], "budget") = JInt(200000)
              => Body(r).budget = Float(2, 5)
         /\ Field(body[r], "budget") = JStr(<<"1", ".", "5">>)
              => Body(r).budget = Float(15, -1)
         /\ complCalls[r] = 1
         /\ complReply[r].kind = "completion"
         /\ Body(r).recommendation = complReply[r].choices[1]

\* A 200 built from a completion of two different choices.
C7_Witness ==
  \E r \in Reqs :
    /\ Done(r) /\ Status(r) = 200
    /\ Len(complReply[r].choices) = 2
    /\ complReply[r].choices[1] # complReply[r].choices[2]

\* C8: no request makes more than one search call or more than one
\* completion call; a finished request that passed validation has made
\* exactly one search call, and a 200 exactly one of each.
C8_SingleCalls ==
  \A r \in Reqs :
    /\ searchCalls[r] <= 1 /\ complCalls[r] <= 1
    /\ (searchReply[r] # NoReply) => searchCalls[r] = 1
    /\ (complReply[r] # NoReply) => complCalls[r] = 1
    /\ (Done(r) /\ IsValidBody(body[r])) => searchCalls[r] = 1
    /\ (Done(r) /\ Status(r) = 200) => complCalls[r] = 1

\* A request whose search raised and one whose completion raised, each
\* finished after single calls.
C8_Witness ==
  \E r, q \in Reqs :
    /\ Done(r) /\ searchReply[r].kind = "raise" /\ searchCalls[r] = 1
    /\ Done(q) /\ complReply[q].kind = "raise"
    /\ searchCalls[q] = 1 /\ complCalls[q] = 1

\* Everything the model keeps for request r.
LocalState(r) ==
  <<pc[r], body[r], request[r], query[r], searchReply[r], suppliers[r],
    sent[r], complReply[r], response[r], searchCalls[r], complCalls[r]>>

\* The inputs of request r: its body and the replies to its own calls.
Inputs(r) == <<body[r], searchReply[r], complReply[r]>>

\* Two requests that stand at the same step with the same inputs are in
\* the same state, whatever else went on around each.
OwnInputsOnly ==
  \A r, q \in Reqs :
    (pc[r] = pc[q] /\ Inputs(r) = Inputs(q)) => LocalState(r) = LocalState(q)

\* A step changes the state of one request at most, and never the client
\* nor the interpreter.
OneRequestPerStep ==
  /\ client' = client /\ interpreter' = interpreter
  /\ \A r, q \in Reqs :
       (r # q /\ LocalState(r)' # LocalState(r)) => LocalState(q)' = LocalState(q)

\* C9: under any interleaving the state and the response of a request are
\* determined by its own body and by the replies to its own calls: two
\* requests with the same inputs end the same; and a step of one request
\* changes nothing of another request nor the shared client.
C9_Isolation == []OwnInputsOnly /\ [][OneRequestPerStep]_vars

\* Two requests with the same body and the same search reply in flight
\* together, both waiting for their completion reply.
C9_Witness ==
  \E r, q \in Reqs :
    /\ r # q
    /\ pc[r] = "completing" /\ pc[q] = "completing"
    /\ Inputs(r) = Inputs(q)

\* The steps of one request, in order.
StepOrder(r) ==
  /\ <<pc[r], pc'[r]>> \in
       { <<"received", "received">>, <<"received", "validated">>,
         <<"received", "done">>, <<"validated", "validated">>,
         <<"validated", "searching">>, <<"searching", "searching">>,
         <<"searching", "generating">>, <<"searching", "done">>,
         <<"generating", "generating">>, <<"generating", "completing">>,
         <<"completing", "completing">>, <<"completing", "done">>,
         <<"done", "done">> }
  /\ searchCalls'[r] # searchCalls[r] => pc[r] = "validated"
  /\ complCalls'[r] # complCalls[r]
       => /\ pc[r] = "generating"
          /\ searchCalls[r] = 1
          /\ searchReply[r].kind = "dict"
          /\ Len(Returned(searchReply[r])) >= 1
          /\ Len(suppliers[r]) >= 1
  /\ (pc[r] # "done" /\ pc'[r] = "done" /\ response'[r].status = 200)
       => pc[r] = "completing"
  /\ (pc[r] # "done" /\ pc'[r] = "done" /\ pc[r] # "completing")
       => response'[r].status \in 400..599
  /\ Done(r) => LocalState(r)' = LocalState(r)

\* C10: a request goes validate, lookup, empty check, generate, respond in
\* that order; the completion call is made only after the search call
\* returned a non-empty supplier list; once a request has finished, by a
\* failure or by its 200, nothing of it changes.
C10_StepOrder == [][\A r \in Reqs : StepOrder(r)]_vars

\* A request stopped at the empty check next to one that went through.
C10_Witness ==
  \E r, q \in Reqs :
    /\ Done(r) /\ Status(r) = 404 /\ complCalls[r] = 0
    /\ Done(q) /\ Status(q) = 200 /\ searchCalls[q] = 1 /\ complCalls[q] = 1

=============================================================================
